---------------------------- MODULE Spec2Model ----------------------------
(***************************************************************************)
(* Time-Announcer: src/time_announce.cpp.                                  *)
(*                                                                         *)
(* One invocation of the announcer: main() parses argv, loads the YAML     *)
(* config, generateTTSAudio() assembles the PCM buffer (lead silence,      *)
(* pre-announce clip, speech, trail silence, LDU padding) and              *)
(* sendAudioToDVMBridge() sends it as paced 324-byte datagrams.            *)
(*                                                                         *)
(* Representation choices                                                  *)
(*  - an optional value is a set with at most one element ({} = absent);   *)
(*  - config.leadSilence / trailSilence are floats in the source; the      *)
(*    model carries them as a whole number of 1/512 s.  Every such value   *)
(*    and its product with 8000 is exactly representable in binary32, so   *)
(*    the float multiply of lines 227 and 320 is exact and the cast to     *)
(*    int is the truncation SamplesOf computes;                            *)
(*  - CLOCK_MONOTONIC is a number of nanoseconds; a struct timespec is     *)
(*    its split into tv_sec and tv_nsec;                                   *)
(*  - a temporary file path is a tuple <<stem, pid, extension>>; the pid   *)
(*    component is 0 for a path the source does not key by getpid().       *)
(***************************************************************************)
EXTENDS Integers, Sequences, FiniteSets, TLC

(***************************************************************************)
(* Program constants                                                       *)
(***************************************************************************)
FRAME_SIZE == 320

SAMPLE_RATE == 8000

LDU_SAMPLES == 9 * 160

FrameUsec == 20000

DefaultPort == 32001

DefaultLeadSilence == 5 * 512

DefaultTrailSilence == 1 * 512

DefaultHost == "127.0.0.1"

DefaultEngine == "espeak"

SilenceDenom == 2 ^ 9

Engines == {"espeak", "pico", "piper"}

(***************************************************************************)
(* Bounds of the model                                                     *)
(***************************************************************************)
\* buffers handed directly to the transport hold up to MaxWholeFrames whole
\* frames plus a tail shorter than a frame (or one whole LDU)
MaxWholeFrames == 2

\* lead silences of 0..MaxLeadSilence / 512 s are assembled (and the default)
MaxLeadSilence == 600

\* the external clip loader returns k * ClipChunk samples, k <= MaxClipChunks
MaxClipChunks == 2

ClipChunk == 720

\* the external speech source returns k * SpeechChunk samples
MaxSpeechChunks == 2

SpeechChunk == 250


\* sizes of the two kinds of external audio the model feeds in
ClipLens == {k * ClipChunk : k \in 0..MaxClipChunks}

SpeechLens == {k * SpeechChunk : k \in 0..MaxSpeechChunks}

\* process ids of the invocation and of a concurrent one
Pids == {4242, 4243}

\* what the machine's timing can be while the transport runs:
\*   starts: readings of CLOCK_MONOTONIC (ns) when the transport starts,
\*   pre:    time (ns) an iteration spends before its sendto (wake-up latency,
\*           packet building),
\*   post:   time (ns) between a sendto and the clock_gettime that follows it
LoadedMachine ==
    [starts |-> {0, 999999500}, pre |-> {0, 5000000, 20000000}, post |-> {0, 500}]

QuietMachine == [starts |-> {0}, pre |-> {0}, post |-> {0}]

VARIABLES
    pc,           \* position of the invocation in main / the called function
    argv,         \* the command line: [h, p : optional, test, help : BOOLEAN]
    yaml,         \* the config file: {} when YAML::LoadFile throws, else {file}
    config,       \* struct Config
    testMode,     \* main: testMode
    exitStatus,   \* -1 while running, else main's return value
    stdout,       \* diagnostic lines written to std::cout (the ones modelled)
    stderr,       \* diagnostic lines written to std::cerr / perror
    pid,          \* getpid()
    samples,      \* the std::vector<int16_t> being assembled, then sent
    leadSamples,  \* generateTTSAudio: leadSamples
    clipCount,    \* number of samples loadPreAnnounceAudio returned
    beforeCount,  \* samples.size() when the first speech sample is appended, -1 before
    ttsCount,     \* number of speech samples read, -1 before
    fsWrites,     \* <<pid, path>>: temporary paths process pid may have written
    fsReads,      \* <<pid, path>>: temporary paths read on behalf of process pid
    addr,         \* sendAudioToDVMBridge: the sockaddr_in, {} before it is set
    offset,       \* sendAudioToDVMBridge: offset
    frameCount,   \* sendAudioToDVMBridge: frameCount
    sent,         \* the datagrams handed to a successful sendto, in order
    failedAt,     \* frameCount at the failed sendto, -1 when none failed
    sendResult,   \* {} until sendAudioToDVMBridge returns, then {its return value}; void is <<>>
    timing,       \* the machine's timing behaviour during this run (an input)
    clock,        \* CLOCK_MONOTONIC, ns
    startTime,    \* sendAudioToDVMBridge: startTime (a timespec)
    lastSendAt,   \* clock at the latest successful sendto, -1 when none
    lastOverhead, \* time the latest sent frame spent between loop top and sendto
    overheadOK    \* every iteration so far spent less than 20 ms outside usleep

mainVars == <<argv, yaml, config, testMode>>

outVars == <<exitStatus, stdout, stderr>>

genVars == <<samples, leadSamples, clipCount, beforeCount, ttsCount>>

fsVars == <<pid, fsWrites, fsReads>>

netVars == <<addr, offset, frameCount, sent, failedAt, sendResult>>

clockVars == <<timing, clock, startTime, lastSendAt, lastOverhead, overheadOK>>

vars == <<pc, mainVars, outVars, genVars, fsVars, netVars, clockVars>>

(***************************************************************************)
(* Helpers                                                                 *)
(***************************************************************************)
\* the value of an optional, or the fallback: yaml-cpp's node.as<T>(fallback)
Get(opt, fallback) == IF opt = {} THEN fallback ELSE CHOOSE v \in opt : TRUE

\* C++ integer division of a by b > 0: truncation toward zero
CDiv(a, b) == IF a >= 0 THEN a \div b ELSE -((-a) \div b)

Min(a, b) == IF a < b THEN a ELSE b

Zeros(n) == [i \in 1..n |-> 0]

\* the samples the external clip loader / speech source deliver (fixed patterns
\* over the int16 range; neither is ever all zero)
ClipAudio(n) == [i \in 1..n |-> ((i * 37) % 201) - 100]

SpeechAudio(n) == [i \in 1..n |-> ((i * 7919) % 65536) - 32768]

(***************************************************************************)
(* sendAudioToDVMBridge                                                    *)
(***************************************************************************)
\* byte k (0-based) of the vector's storage: int16 two's complement, little endian
ByteAt(data, k) ==
    LET u == (data[(k \div 2) + 1] + 65536) % 65536
    IN  IF k % 2 = 0 THEN u % 256 ELSE u \div 256

TotalBytes(data) == Len(data) * 2

\* lines 137-141: the 4-byte big-endian length header
PacketHeader(len) ==
    << (len \div 2 ^ 24) % 256, (len \div 2 ^ 16) % 256, (len \div 2 ^ 8) % 256, len % 256 >>

\* lines 131, 144-145: memset to zero, then memcpy of chunkSize bytes
PacketPayload(data, off) ==
    LET chunkSize == Min(FRAME_SIZE, TotalBytes(data) - off)
    IN  [j \in 1..FRAME_SIZE |-> IF j <= chunkSize THEN ByteAt(data, off + j - 1) ELSE 0]

\* (mutation) only the header and the chunk are sent, without the padding
BuildPacket_Unpadded(data, off) ==
    PacketHeader(FRAME_SIZE)
        \o SubSeq(PacketPayload(data, off), 1, Min(FRAME_SIZE, TotalBytes(data) - off))

\* the buffer sendto is given: uint8_t packet[4 + FRAME_SIZE], all of it
BuildPacket(data, off) == PacketHeader(FRAME_SIZE) \o PacketPayload(data, off)

\* (mutation) the offset advances by the size of the packet, header included
NextOffset_PacketSize(off) == off + 4 + FRAME_SIZE

\* line 154
NextOffset(off) == off + FRAME_SIZE

\* htons(port): the port is cut to 16 bits
Htons(port) == port % 65536

Timespec(ns) == [tv_sec |-> ns \div 1000000000, tv_nsec |-> ns % 1000000000]

\* lines 163-164
ElapsedUsec(start, cur) ==
    (cur.tv_sec - start.tv_sec) * 1000000 + CDiv(cur.tv_nsec - start.tv_nsec, 1000)

\* (mutation) a fixed sleep of one frame duration after every frame
SleepUsec_Fixed(count, start, cur) == FrameUsec

\* lines 159-167: how long to sleep after frameCount frames, read at clock value cur
SleepUsec(count, start, cur) == count * FrameUsec - ElapsedUsec(start, Timespec(cur))

\* lines 105-128: the socket is created, the address filled in, the start time read
OpenSocket ==
    /\ pc = "send_entry"
    /\ \E t \in timing.starts :
          /\ clock' = t
          /\ startTime' = Timespec(t)
    /\ addr' = {[host |-> config.host, port |-> Htons(config.port)]}
    /\ offset' = 0
    /\ frameCount' = 0
    /\ stdout' = Append(stdout, "Sending")
    /\ pc' = "loop"
    /\ UNCHANGED <<mainVars, exitStatus, stderr, genVars, fsVars, sent, failedAt, sendResult,
                   timing, lastSendAt, lastOverhead, overheadOK>>

\* lines 106-109: socket() fails
SocketFail ==
    /\ pc = "send_entry"
    /\ stderr' = Append(stderr, "socket")
    /\ sendResult' = {<<>>}
    /\ pc' = "send_return"
    /\ UNCHANGED <<mainVars, exitStatus, stdout, genVars, fsVars, addr, offset, frameCount, sent,
                   failedAt, clockVars>>

\* lines 130-170: one iteration of the loop whose sendto succeeds
SendFrame ==
    /\ pc = "loop"
    /\ offset < TotalBytes(samples)
    /\ \E d1 \in timing.pre, d2 \in timing.post :
          LET sendAt == clock + d1
              cur == sendAt + d2
              sleepUsec == SleepUsec(frameCount + 1, startTime, cur)
          IN  /\ lastSendAt' = sendAt
              /\ lastOverhead' = d1
              /\ overheadOK' = (overheadOK /\ d1 + d2 < FrameUsec * 1000)
              /\ clock' = IF sleepUsec > 0 THEN cur + sleepUsec * 1000 ELSE cur
    /\ sent' = Append(sent, BuildPacket(samples, offset))
    /\ offset' = NextOffset(offset)
    /\ frameCount' = frameCount + 1
    /\ UNCHANGED <<pc, mainVars, outVars, genVars, fsVars, addr, failedAt, sendResult,
                   timing, startTime>>

\* (mutation) the failure is logged and the loop goes on to try again
SendtoFail_Continue ==
    /\ pc = "loop"
    /\ offset < TotalBytes(samples)
    /\ failedAt = -1
    /\ stderr' = Append(stderr, "sendto")
    /\ failedAt' = frameCount
    /\ UNCHANGED <<pc, mainVars, exitStatus, stdout, genVars, fsVars, addr, offset,
                   frameCount, sent, sendResult, clockVars>>

\* lines 147-152: sendto fails: perror, break
SendtoFail ==
    /\ pc = "loop"
    /\ offset < TotalBytes(samples)
    /\ stderr' = Append(stderr, "sendto")
    /\ failedAt' = frameCount
    /\ pc' = "close"
    /\ UNCHANGED <<mainVars, exitStatus, stdout, genVars, fsVars, addr, offset, frameCount, sent,
                   sendResult, clockVars>>

\* lines 173-175: after the loop (ended or broken): close, "Done sending audio"
CloseSocket ==
    /\ \/ pc = "loop" /\ offset >= TotalBytes(samples)
       \/ pc = "close"
    /\ stdout' = Append(stdout, "Done sending audio")
    /\ sendResult' = {<<>>}
    /\ pc' = "send_return"
    /\ UNCHANGED <<mainVars, exitStatus, stderr, genVars, fsVars, addr, offset, frameCount, sent,
                   failedAt, clockVars>>

NextTransport == OpenSocket \/ SocketFail \/ SendFrame \/ SendtoFail \/ CloseSocket

DefaultConfig ==
    [host |-> DefaultHost, port |-> DefaultPort,
     leadSilence |-> DefaultLeadSilence, trailSilence |-> DefaultTrailSilence,
     engine |-> DefaultEngine, preAnnounceFile |-> ""]

NoArgs == [h |-> {}, p |-> {}, test |-> FALSE, help |-> FALSE]

FirstPid == CHOOSE p \in Pids : \A q \in Pids : p <= q

\* the parts of the initial state that are not inputs
IdleMain == argv = NoArgs /\ yaml = {} /\ config = DefaultConfig /\ testMode = FALSE

IdleOut == exitStatus = -1 /\ stdout = <<>> /\ stderr = <<>>

IdleGen ==
    /\ samples = <<>> /\ leadSamples = 0 /\ clipCount = 0
    /\ beforeCount = -1 /\ ttsCount = -1

IdleFs == pid = FirstPid /\ fsWrites = {} /\ fsReads = {}

IdleNet ==
    /\ addr = {} /\ offset = 0 /\ frameCount = 0 /\ sent = <<>>
    /\ failedAt = -1 /\ sendResult = {}

IdleClock ==
    /\ clock = 0 /\ startTime = Timespec(0)
    /\ lastSendAt = -1 /\ lastOverhead = 0 /\ overheadOK = TRUE

(***************************************************************************)
(* generateTTSAudio and loadPreAnnounceAudio                               *)
(***************************************************************************)
\* static_cast<int>(SAMPLE_RATE * seconds) for seconds = sec512 / 512 >= 0
SamplesOf(sec512) == (SAMPLE_RATE * sec512) \div SilenceDenom

\* (mutation) no rounding
RoundUpLDU_None(n) == n

\* line 229
RoundUpLDU(n) == ((n + LDU_SAMPLES - 1) \div LDU_SAMPLES) * LDU_SAMPLES

\* (mutation) rounding down to an LDU boundary
LeadSamples_RoundDown(sec512) == (SamplesOf(sec512) \div LDU_SAMPLES) * LDU_SAMPLES

\* lines 227-229
LeadSamples(sec512) == RoundUpLDU(SamplesOf(sec512))

\* lines 325-329: the zero samples that bring a length to an LDU boundary
PadSamples(len) ==
    LET remainder == len % LDU_SAMPLES
    IN  IF remainder # 0 THEN LDU_SAMPLES - remainder ELSE 0

\* the temporary files named in lines 189/200, 246-247/265 and 287-288
ClipRawPath(p) == <<"/tmp/preannounce_", p, ".raw">>

PiperWavPath(p) == <<"/tmp/piper_", p, ".wav">>

PiperRawPath(p) == <<"/tmp/piper_", p, ".raw">>

PicoWavPath(p) == <<"/tmp/tts_temp", 0, ".wav">>

\* the temporary files the speech commands of an engine write (and read back)
EngineFiles(p, engine) ==
    CASE engine = "piper" -> {PiperWavPath(p), PiperRawPath(p)}
      [] engine = "pico"  -> {PicoWavPath(p)}
      [] OTHER            -> {}

\* lines 227-230
GenLead ==
    /\ pc = "gen_entry"
    /\ leadSamples' = LeadSamples(config.leadSilence)
    /\ samples' = Zeros(leadSamples')
    /\ pc' = "gen_pre"
    /\ UNCHANGED <<mainVars, outVars, clipCount, beforeCount, ttsCount, fsVars,
                   netVars, clockVars>>

\* line 233: no pre-announce file is configured
GenNoPreAnnounce ==
    /\ pc = "gen_pre"
    /\ config.preAnnounceFile = ""
    /\ pc' = "gen_tts"
    /\ UNCHANGED <<mainVars, outVars, genVars, fsVars, netVars, clockVars>>

\* lines 234-235 with loadPreAnnounceAudio failing: sox returns non-zero, or the
\* raw file cannot be opened; nothing is appended
GenPreAnnounceFail ==
    /\ pc = "gen_pre"
    /\ config.preAnnounceFile # ""
    /\ \E msg \in {"Failed to convert pre-announce file", "Failed to open"} :
          stderr' = Append(stderr, msg)
    /\ fsWrites' = fsWrites \cup {<<pid, ClipRawPath(pid)>>}
    /\ pc' = "gen_tts"
    /\ UNCHANGED <<mainVars, exitStatus, stdout, genVars, pid, fsReads, netVars,
                   clockVars>>

\* lines 234-235 with loadPreAnnounceAudio returning n samples
GenPreAnnounceLoad ==
    /\ pc = "gen_pre"
    /\ config.preAnnounceFile # ""
    /\ \E n \in ClipLens :
          /\ samples' = samples \o ClipAudio(n)
          /\ clipCount' = n
    /\ fsWrites' = fsWrites \cup {<<pid, ClipRawPath(pid)>>}
    /\ fsReads' = fsReads \cup {<<pid, ClipRawPath(pid)>>}
    /\ stdout' = Append(stdout, "Loaded pre-announce audio")
    /\ pc' = "gen_tts"
    /\ UNCHANGED <<mainVars, exitStatus, stderr, leadSamples, beforeCount, ttsCount,
                   pid, netVars, clockVars>>

\* lines 257-271: the piper command fails, or its raw file cannot be opened:
\* the function returns what it has assembled so far
GenPiperFail ==
    /\ pc = "gen_tts"
    /\ config.engine = "piper"
    /\ \E msg \in {"Piper command failed", "Failed to open"} :
          /\ stderr' = Append(stderr, msg)
          /\ fsReads' = IF msg = "Failed to open"
                        THEN fsReads \cup {<<pid, PiperWavPath(pid)>>}
                        ELSE fsReads
    /\ fsWrites' = fsWrites \cup {<<pid, f>> : f \in EngineFiles(pid, "piper")}
    /\ pc' = "gen_return"
    /\ UNCHANGED <<mainVars, exitStatus, stdout, genVars, pid, netVars, clockVars>>

\* lines 273-281: the piper raw file is read to its end
GenPiperRead ==
    /\ pc = "gen_tts"
    /\ config.engine = "piper"
    /\ \E n \in SpeechLens :
          /\ samples' = samples \o SpeechAudio(n)
          /\ ttsCount' = n
    /\ beforeCount' = Len(samples)
    /\ fsWrites' = fsWrites \cup {<<pid, f>> : f \in EngineFiles(pid, "piper")}
    /\ fsReads' = fsReads \cup {<<pid, f>> : f \in EngineFiles(pid, "piper")}
    /\ stdout' = Append(stdout, "Loaded piper audio")
    /\ pc' = "gen_trail"
    /\ UNCHANGED <<mainVars, exitStatus, stderr, leadSamples, clipCount, pid, netVars,
                   clockVars>>

\* lines 305-309: popen fails (pico or espeak): the function returns what it has
GenPopenFail ==
    /\ pc = "gen_tts"
    /\ config.engine # "piper"
    /\ stderr' = Append(stderr, "Failed to run TTS command")
    /\ pc' = "gen_return"
    /\ UNCHANGED <<mainVars, exitStatus, stdout, genVars, fsVars, netVars, clockVars>>

\* lines 311-316: the pipe is read to its end (n = 0: the command failed or
\* produced nothing)
GenPipeRead ==
    /\ pc = "gen_tts"
    /\ config.engine # "piper"
    /\ \E n \in SpeechLens :
          /\ samples' = samples \o SpeechAudio(n)
          /\ ttsCount' = n
    /\ beforeCount' = Len(samples)
    /\ fsWrites' = fsWrites \cup {<<pid, f>> : f \in EngineFiles(pid, config.engine)}
    /\ fsReads' = fsReads \cup {<<pid, f>> : f \in EngineFiles(pid, config.engine)}
    /\ pc' = "gen_trail"
    /\ UNCHANGED <<mainVars, outVars, leadSamples, clipCount, pid, netVars, clockVars>>

\* lines 320-334: trail silence, then the padding to an LDU boundary
GenTrailPad ==
    /\ pc = "gen_trail"
    /\ LET trailSamples == SamplesOf(config.trailSilence)
           withTrail == samples \o Zeros(trailSamples)
       IN  samples' = withTrail \o Zeros(PadSamples(Len(withTrail)))
    /\ stdout' = Append(stdout, "Generated")
    /\ pc' = "gen_return"
    /\ UNCHANGED <<mainVars, exitStatus, stderr, leadSamples, clipCount, beforeCount,
                   ttsCount, fsVars, netVars, clockVars>>

NextAssemble ==
    \/ GenLead \/ GenNoPreAnnounce \/ GenPreAnnounceFail \/ GenPreAnnounceLoad
    \/ GenPiperFail \/ GenPiperRead \/ GenPopenFail \/ GenPipeRead \/ GenTrailPad

\* generateTTSAudio of an invocation running at the same time as another process
\* q, reduced to the temporary files it touches
PeerInvocation ==
    /\ \E q \in Pids \ {pid}, engine \in Engines, clip \in BOOLEAN :
          LET files == EngineFiles(q, engine)
                         \cup (IF clip THEN {ClipRawPath(q)} ELSE {})
          IN  /\ \A w \in fsWrites \cup fsReads : w[1] # q
              /\ fsWrites' = fsWrites \cup {<<q, f>> : f \in files}
              /\ fsReads' = fsReads \cup {<<q, f>> : f \in files}
    /\ UNCHANGED <<pc, mainVars, outVars, genVars, pid, netVars, clockVars>>

(***************************************************************************)
(* Config::load and main                                                   *)
(***************************************************************************)
\* atoi on the port arguments the model uses
Atoi(str) ==
    CASE str = "40000" -> 40000
      [] str = "70000" -> 70000
      [] OTHER         -> 0

\* lines 56-94: each section that is present overwrites the fields whose key is
\* present; every other field keeps the value it had before the call
LoadedConfig(cfg, file) ==
    LET net == Get(file.network, [host |-> {}, port |-> {}])
        aud == Get(file.audio, [leadSilence |-> {}, trailSilence |-> {}])
        tts == Get(file.tts, [engine |-> {}])
        ann == Get(file.announcement, [preAnnounceFile |-> {}])
    IN  [host            |-> Get(net.host, cfg.host),
         port            |-> Get(net.port, cfg.port),
         leadSilence     |-> Get(aud.leadSilence, cfg.leadSilence),
         trailSilence    |-> Get(aud.trailSilence, cfg.trailSilence),
         engine          |-> Get(tts.engine, cfg.engine),
         preAnnounceFile |-> Get(ann.preAnnounceFile, cfg.preAnnounceFile)]

\* lines 384-399 when --help is among the arguments: usage, return 0
ParseArgsHelp ==
    /\ pc = "start"
    /\ argv.help
    /\ stdout' = Append(stdout, "Usage")
    /\ exitStatus' = 0
    /\ pc' = "exit"
    /\ UNCHANGED <<mainVars, stderr, genVars, fsVars, netVars, clockVars>>

\* lines 384-399: -h, -p and --test are stored
ParseArgs ==
    /\ pc = "start"
    /\ ~argv.help
    /\ config' = [config EXCEPT
                    !.host = Get(argv.h, @),
                    !.port = IF argv.p = {} THEN @ ELSE Atoi(Get(argv.p, ""))]
    /\ testMode' = argv.test
    /\ pc' = "load"
    /\ UNCHANGED <<argv, yaml, outVars, genVars, fsVars, netVars, clockVars>>

\* line 402, Config::load: the file's values are laid over the current ones; a
\* file that cannot be loaded leaves them as they are, with a warning
LoadConfig ==
    /\ pc = "load"
    /\ IF yaml = {}
       THEN /\ config' = config
            /\ stderr' = Append(stderr, "Warning: Could not load config file")
            /\ stdout' = stdout
       ELSE /\ config' = LoadedConfig(config, Get(yaml, {}))
            /\ stdout' = Append(stdout, "Config loaded")
            /\ stderr' = stderr
    /\ pc' = "gen_entry"
    /\ UNCHANGED <<argv, yaml, testMode, exitStatus, genVars, fsVars, netVars,
                   clockVars>>

\* (mutation) the run is failed whenever the speech source delivered nothing
MainNoAudio_OnSilence ==
    /\ pc = "gen_return"
    /\ ttsCount <= 0
    /\ stderr' = Append(stderr, "No audio generated")
    /\ exitStatus' = 1
    /\ pc' = "exit"
    /\ UNCHANGED <<mainVars, stdout, genVars, fsVars, netVars, clockVars>>

\* lines 411-414
MainNoAudio ==
    /\ pc = "gen_return"
    /\ samples = <<>>
    /\ stderr' = Append(stderr, "No audio generated")
    /\ exitStatus' = 1
    /\ pc' = "exit"
    /\ UNCHANGED <<mainVars, stdout, genVars, fsVars, netVars, clockVars>>

\* lines 416-420
MainTestMode ==
    /\ pc = "gen_return"
    /\ samples # <<>>
    /\ testMode
    /\ stdout' = Append(stdout, "Test mode - not sending to DVMBridge")
    /\ exitStatus' = 0
    /\ pc' = "exit"
    /\ UNCHANGED <<mainVars, stderr, genVars, fsVars, netVars, clockVars>>

\* lines 422-439: the debug copy and the settle delay, then the transport is
\* called (the delay and the debug file change nothing the program reads later)
MainSend ==
    /\ pc = "gen_return"
    /\ samples # <<>>
    /\ ~testMode
    /\ pc' = "send_entry"
    /\ UNCHANGED <<mainVars, outVars, genVars, fsVars, netVars, clockVars>>

\* line 441
MainExit ==
    /\ pc = "send_return"
    /\ exitStatus' = 0
    /\ pc' = "exit"
    /\ UNCHANGED <<mainVars, stdout, stderr, genVars, fsVars, netVars, clockVars>>

Next ==
    \/ ParseArgsHelp \/ ParseArgs \/ LoadConfig
    \/ NextAssemble
    \/ MainNoAudio \/ MainTestMode \/ MainSend
    \/ NextTransport
    \/ MainExit

\* the buffers the transport is called with directly
BufferLens ==
    {q * 160 + r : q \in 0..MaxWholeFrames, r \in {0, 1, 7, 159}} \cup {LDU_SAMPLES}

\* sendAudioToDVMBridge called on its own: any buffer, the default destination
InitTransport ==
    /\ pc = "send_entry"
    /\ IdleMain /\ IdleOut /\ IdleFs /\ IdleNet /\ IdleClock
    /\ timing = LoadedMachine
    /\ \E n \in BufferLens : samples = SpeechAudio(n)
    /\ leadSamples = 0 /\ clipCount = 0 /\ beforeCount = -1 /\ ttsCount = -1

SpecTransport == InitTransport /\ [][NextTransport]_vars

\* generateTTSAudio called on its own: short silences with every engine, with
\* and without a pre-announce file; and every lead silence up to the bound
AssembleConfigs ==
    {[DefaultConfig EXCEPT !.leadSilence = l, !.trailSilence = t, !.engine = e,
                           !.preAnnounceFile = f] :
        l \in {0, 1}, t \in {0, 1}, e \in Engines, f \in {"", "chime.wav"}}
    \cup {[DefaultConfig EXCEPT !.leadSilence = l, !.trailSilence = 0] :
            l \in 0..MaxLeadSilence}
    \cup {DefaultConfig}

InitAssemble ==
    /\ pc = "gen_entry"
    /\ argv = NoArgs /\ yaml = {} /\ testMode = FALSE
    /\ config \in AssembleConfigs
    /\ IdleOut /\ IdleGen /\ IdleFs /\ IdleNet /\ IdleClock
    /\ timing = QuietMachine

SpecAssemble == InitAssemble /\ [][NextAssemble]_vars

\* two invocations at the same time: this one, and a peer with another pid
InitFiles ==
    /\ pc = "gen_entry"
    /\ argv = NoArgs /\ yaml = {} /\ testMode = FALSE
    /\ config \in {[DefaultConfig EXCEPT !.leadSilence = 0, !.trailSilence = 0,
                                          !.engine = e, !.preAnnounceFile = f] :
                      e \in Engines, f \in {"", "chime.wav"}}
    /\ IdleOut /\ IdleGen /\ IdleNet /\ IdleClock
    /\ pid \in Pids /\ fsWrites = {} /\ fsReads = {}
    /\ timing = QuietMachine

SpecFiles == InitFiles /\ [][NextAssemble \/ PeerInvocation]_vars

\* config files: a network section or none, short silences, an engine, a clip
YamlFile(net, lead, trail, engine, clip) ==
    [network      |-> net,
     audio        |-> {[leadSilence |-> {lead}, trailSilence |-> {trail}]},
     tts          |-> engine,
     announcement |-> clip]

NetworkSections ==
    { {},
      {[host |-> {"192.168.1.50"}, port |-> {34001}]},
      {[host |-> {"192.168.1.50"}, port |-> {}]} }

\* runs that differ in where the destination comes from
NetworkRuns ==
    [argv : [h : {{}, {"10.0.0.9"}}, p : {{}, {"40000"}}, test : {FALSE}, help : {FALSE}],
     yaml : {{YamlFile(n, 0, 1, {}, {})} : n \in NetworkSections}]

\* runs that differ in what is assembled
AudioRuns ==
    [argv : {NoArgs, [NoArgs EXCEPT !.test = TRUE]},
     yaml : {{YamlFile({}, l, 0, {[engine |-> {e}]}, c)} :
                l \in {0, 1}, e \in Engines,
                c \in {{}, {[preAnnounceFile |-> {"chime.wav"}]}}}]

\* --help, and the built-in defaults (no readable config file) in test mode
OtherRuns ==
    { [argv |-> [NoArgs EXCEPT !.help = TRUE], yaml |-> {}],
      [argv |-> [NoArgs EXCEPT !.test = TRUE], yaml |-> {}] }

Init ==
    /\ pc = "start"
    /\ \E run \in NetworkRuns \cup AudioRuns \cup OtherRuns :
          argv = run.argv /\ yaml = run.yaml
    /\ config = DefaultConfig /\ testMode = FALSE
    /\ IdleOut /\ IdleGen /\ IdleFs /\ IdleNet /\ IdleClock
    /\ timing = QuietMachine

Spec == Init /\ [][Next]_vars

(***************************************************************************)
(* Properties of the transport                                             *)
(***************************************************************************)
FrameNs == FrameUsec * 1000

\* startTime as nanoseconds
T0 == startTime.tv_sec * 1000000000 + startTime.tv_nsec

\* sample i (1-based) decoded from the payloads of the datagrams sent, in order
Decoded(i) ==
    LET k == (2 * (i - 1)) \div FRAME_SIZE
        j == (2 * (i - 1)) % FRAME_SIZE
        u == sent[k + 1][4 + j + 1] + 256 * sent[k + 1][4 + j + 2]
    IN  IF u >= 32768 THEN u - 65536 ELSE u

FramesNeeded(n) == (n + 159) \div 160

\* C3: every datagram given to sendto is 324 bytes: 00 00 01 40, then the 320
\* bytes of the buffer at that frame's offset, the bytes past the buffer's end zero.
C3_DatagramLayout ==
    \A k \in 1..Len(sent) :
        /\ Len(sent[k]) = 324
        /\ SubSeq(sent[k], 1, 4) = <<0, 0, 1, 64>>
        /\ \A j \in 0..319 :
              LET b == (k - 1) * 320 + j
              IN  sent[k][5 + j] = IF b < 2 * Len(samples)
                                   THEN ByteAt(samples, b) ELSE 0

\* C3 witness: a final frame that is partly buffer (its last sample is not zero), partly padding
C3_Witness ==
    /\ Len(sent) >= 2
    /\ Len(sent) * 320 > 2 * Len(samples)
    /\ Len(samples) % 160 = 7
    /\ samples[Len(samples)] # 0

\* C4: with no failure, ceil(N/160) datagrams are sent and the first N samples
\* decoded from their payloads are the buffer; the transport never changes the buffer.
C4_RoundTripAtReturn ==
    (pc = "send_return" /\ failedAt = -1 /\ addr # {}) =>
        /\ Len(sent) = FramesNeeded(Len(samples))
        /\ \A i \in 1..Len(samples) : Decoded(i) = samples[i]

\* C4: the round trip holds at every return of the transport, and no step of the
\* program changes the buffer once it is being sent.
C4_RoundTrip == []C4_RoundTripAtReturn /\ [][samples' = samples]_vars

\* C4 witness: a 161-sample buffer with negative samples, sent whole in 2 datagrams
C4_Witness ==
    /\ pc = "send_return" /\ failedAt = -1
    /\ Len(samples) = 161 /\ Len(sent) = 2
    /\ \E i \in 1..Len(samples) : samples[i] < 0

C6_Original ==
    lastSendAt # -1 =>
        /\ lastSendAt >= T0 + (frameCount - 1) * FrameNs
        /\ overheadOK => lastSendAt <= T0 + (frameCount - 1) * FrameNs + lastOverhead

\* C6 amended: the same, to within the microsecond the timespec-to-microsecond
\* conversion loses; and the loop reaches frame N at t0 + N * 20 ms to within it.
C6_PacingWithinOneMicrosecond ==
    lastSendAt # -1 =>
        /\ lastSendAt > T0 + (frameCount - 1) * FrameNs - 1000
        /\ overheadOK =>
              /\ lastSendAt < T0 + (frameCount - 1) * FrameNs + lastOverhead + 1000
              /\ clock > T0 + frameCount * FrameNs - 1000
              /\ clock < T0 + frameCount * FrameNs + 1000

\* C6 witness: the ninth frame of a 1440-sample buffer, sent after 5 ms of overhead
C6_Witness ==
    /\ frameCount = 9 /\ Len(samples) = LDU_SAMPLES
    /\ overheadOK /\ lastOverhead = 5000000
    /\ lastSendAt >= T0 + 8 * FrameNs + lastOverhead

(***************************************************************************)
(* Properties of the assembler                                             *)
(***************************************************************************)
\* C1 as stated: whatever generateTTSAudio returns is a whole number of LDUs.
C1_Original == pc = "gen_return" => Len(samples) % LDU_SAMPLES = 0

\* what holds instead: the returns that reach the padding of lines 325-329
C1_PaddedReturnsAligned ==
    (pc = "gen_return" /\ ttsCount # -1) => Len(samples) % LDU_SAMPLES = 0

\* C2 as stated: the first speech sample sits at a multiple of 1440.
C2_Original == ttsCount > 0 => beforeCount % LDU_SAMPLES = 0

\* C2 amended: the lead silence ends on an LDU boundary, the clip follows it
\* verbatim, and the first speech sample sits right after the clip: at a multiple
\* of 1440 exactly when the clip's length is one.
C2_SpeechFollowsClip ==
    ttsCount > 0 =>
        /\ leadSamples % LDU_SAMPLES = 0
        /\ beforeCount = leadSamples + clipCount
        /\ \A i \in 1..clipCount : samples[leadSamples + i] = ClipAudio(clipCount)[i]
        /\ samples[beforeCount + 1] = SpeechAudio(ttsCount)[1]
        /\ (beforeCount % LDU_SAMPLES = 0) <=> (clipCount % LDU_SAMPLES = 0)

\* C2 witness: speech placed after lead silence and a clip that is not whole LDUs
C2_Witness ==
    /\ ttsCount > 0 /\ leadSamples > 0
    /\ clipCount > 0 /\ clipCount % LDU_SAMPLES # 0
    /\ beforeCount % LDU_SAMPLES # 0

\* C9 as stated: the lead silence is the smallest multiple of 1440 that is at least
\* 8000 * leadSilence, the exact product (leadSilence = config.leadSilence / 512 s).
C9_Original ==
    pc # "gen_entry" =>
        /\ leadSamples % 1440 = 0
        /\ leadSamples * 512 >= 8000 * config.leadSilence
        /\ (leadSamples - 1440) * 512 < 8000 * config.leadSilence
        /\ config.leadSilence = 5 * 512 => leadSamples = 40320

\* C9 amended: it is the smallest multiple of 1440 that is at least the product
\* cut to a whole number of samples; the buffer starts with that many zeros.
C9_LeadIsRoundedWholeSamples ==
    pc # "gen_entry" =>
        LET whole == (8000 * config.leadSilence) \div 512
        IN  /\ leadSamples % 1440 = 0
            /\ leadSamples >= whole
            /\ leadSamples - 1440 < whole
            /\ config.leadSilence = 5 * 512 => leadSamples = 40320
            /\ Len(samples) >= leadSamples
            /\ \A i \in 1..leadSamples : samples[i] = 0

\* C9 witness: 553/512 s is 8640.625 samples, cut to 8640, which is already 6 LDUs
C9_Witness ==
    /\ pc = "gen_return"
    /\ config.leadSilence = 553
    /\ leadSamples = 8640
    /\ 8000 * config.leadSilence > leadSamples * 512

\* C10 as stated: a temporary file one invocation writes or reads is never
\* written by another invocation.
C10_Original ==
    \A a \in fsWrites \cup fsReads, b \in fsWrites : a[1] # b[1] => a[2] # b[2]

\* what holds instead: only the path that is not keyed by the pid is shared
C10_OnlyPicoShared ==
    \A a \in fsWrites \cup fsReads, b \in fsWrites :
        (a[1] # b[1] /\ a[2] = b[2]) => a[2] = PicoWavPath(0)

(***************************************************************************)
(* Properties of a whole run                                               *)
(***************************************************************************)
\* C7 as stated: when the speech source delivers no samples the run ends with
\* status 1 and nothing is sent.
C7_Original ==
    (pc = "exit" /\ ~argv.help /\ ttsCount <= 0) => (exitStatus = 1 /\ sent = <<>>)

\* C7 amended: when the speech source delivers no samples, the run ends with "No
\* audio generated", status 1 and nothing sent exactly when the returned buffer is
\* empty; a buffer of silence (and clip) goes the way of any buffer, status 0.
C7_FailureOnlyWhenEmpty ==
    (pc = "exit" /\ ~argv.help /\ ttsCount <= 0) =>
        /\ samples = <<>> =>
              /\ exitStatus = 1 /\ sent = <<>>
              /\ stderr[Len(stderr)] = "No audio generated"
        /\ samples # <<>> =>
              /\ exitStatus = 0
              /\ \A i \in 1..Len(stderr) : stderr[i] # "No audio generated"
              /\ (~testMode /\ addr # {} /\ failedAt = -1) =>
                    Len(sent) = FramesNeeded(Len(samples))

\* C7 witness: a run whose speech source delivered nothing, and that sent its silence
C7_Witness ==
    /\ pc = "exit" /\ ttsCount = 0 /\ exitStatus = 0
    /\ Len(sent) = 9 /\ failedAt = -1
    /\ \A i \in 1..Len(samples) : samples[i] = 0

\* C8 as stated: a host or port given on the command line is the one sent to.
C8_Original ==
    addr # {} =>
        LET a == CHOOSE x \in addr : TRUE
        IN  /\ argv.h # {} => a.host = Get(argv.h, "")
            /\ argv.p # {} => a.port = Atoi(Get(argv.p, ""))

\* what holds instead: the file's value when the file has one, else the command
\* line's, else the default
C8_FileOverCommandLine ==
    addr # {} =>
        LET a == CHOOSE x \in addr : TRUE
            net == Get(Get(yaml, [network |-> {}]).network, [host |-> {}, port |-> {}])
        IN  /\ a.host = Get(net.host, Get(argv.h, DefaultHost))
            /\ a.port = Get(net.port, IF argv.p = {} THEN DefaultPort
                                      ELSE Atoi(Get(argv.p, "")))

====
